---- MODULE Spec2Model ----
(***************************************************************************)
(* Order lifecycle of the Censudex orders service: OrdersService (create,  *)
(* updateStatus, cancel, handleFailedStock) over the order repository, the *)
(* RabbitMQ client (connect, reconnect, publish, consume) and the SendGrid *)
(* notifier.  Every await of the TypeScript code that touches the store,   *)
(* the broker or the notifier is one step of a task, so that operations    *)
(* running at the same time interleave at exactly those points.            *)
(***************************************************************************)
EXTENDS Integers, Sequences, FiniteSets, TLC

\* ------------------------------------------------------------------ bounds
\* instants the wall clock passes through (new Date() reads the clock)
MaxClock == 2
\* messages kept on each durable queue
MaxQueue == 2
\* open connections out of the reach of the broker client
MaxLeaked == 2
\* operations in flight at the same time: two RPC calls, or an RPC call and
\* a broker delivery
Tasks == {1, 2}

\* ------------------------------------------------------------------ values
\* absent value of a nullable column / an undefined property
NULL == "null"
\* the status enum of the orders table
ORDER_STATUSES == {"pendiente", "en_procesamiento", "enviado", "entregado", "cancelado"}
\* ids of the orders table: the operations read and write one row each, and
\* the rows do not depend on each other
Ids == {1}
ClientIds == {"c1"}
\* tracking numbers a caller sends: undefined, empty, or a number
TrackingInputs == {NULL, "", "TRK-1"}
\* the requests of updateStatus: a status, and a tracking number with enviado
UpdateInputs == {in \in [status : ORDER_STATUSES, trackingNumber : TrackingInputs] :
                    in.status # "enviado" => in.trackingNumber = NULL}
\* cancellation reasons a caller sends: undefined, empty, or a text
ReasonInputs == {NULL, "", "ya no lo quiero"}

\* items of a CreateOrderDto, productId and quantity (Min(1)): no item, or
\* two products of which one comes twice
ItemLists == {<<>>,
              <<[productId |-> "p1", quantity |-> 2], [productId |-> "p2", quantity |-> 1],
                [productId |-> "p1", quantity |-> 3]>>}
CreateOrderDtos == [clientId : ClientIds, items : ItemLists]

\* ------------------------------------------------------------------ state
VARIABLES
    store,      \* orders table: id -> row, NoOrder where no row exists
    tasks,      \* the operations in flight: task -> its position and locals
    last,       \* the operation that ended last with no other in flight, as it ended
    queues,     \* durable queues of the broker: name -> messages sent to it
    clock,      \* wall clock
    brokerUp,   \* the broker accepts connections
    connection, \* RabbitMQService.connection: "none" | "open" | "closed", or "bare":
                \* open, with no channel and no handler of connect() on it
    channel,    \* RabbitMQService.channel: "none" | "open" | "closed"
    consumer,   \* order.failed.stock consumer: "unregistered" | "none" | "active" | "lost"
    connPc,     \* position of the connect()/reconnect() sequence
    retryCount, \* retryCount argument of the running connect()
    reconnectAttempts, \* RabbitMQService.reconnectAttempts
    lastDelay,  \* milliseconds of the last backoff wait started
    destroyed,  \* RabbitMQService.onModuleDestroy has run
    leaked      \* open connections this.connection held and holds no more

orderVars == <<store, tasks, last, queues, clock>>
brokerVars == <<brokerUp, connection, channel, consumer, connPc, retryCount,
                reconnectAttempts, lastDelay, destroyed, leaked>>
vars == <<store, tasks, last, queues, clock, brokerUp, connection, channel,
          consumer, connPc, retryCount, reconnectAttempts, lastDelay, destroyed, leaked>>

\* ------------------------------------------------------------------ rows
\* value of a nullable datetime column that holds no date
NoDate == 0

\* no row under an id
NoOrder == [id |-> 0, clientId |-> NULL, clientName |-> NULL, clientEmail |-> NULL,
            shippingAddress |-> NULL, status |-> NULL, total |-> 0,
            trackingNumber |-> NULL, cancellationReason |-> NULL,
            shippedAt |-> NoDate, deliveredAt |-> NoDate, cancelledAt |-> NoDate,
            items |-> <<>>, isDeleted |-> FALSE]

\* the caller's own data that comes with a clientId in a CreateOrderDto
ClientName(c) == "name-" \o c
ClientEmail(c) == c \o "@mail.cl"
ShippingAddress(c) == "addr-" \o c

\* OrdersService.getProductDetails: the product as the Products Service gives it
getProductDetails(productId) ==
    [id |-> productId, name |-> "Producto de Ejemplo", price |-> 10000,
     imageUrl |-> "https://via.placeholder.com/150"]

\* a subtotal that forgets the quantity
ItemSubtotal_NoQuantity(price, quantity) == price

\* create: const subtotal = productDetails.price * itemDto.quantity
ItemSubtotal(price, quantity) == price * quantity

\* create: the OrderItem built for one item of the request
OrderItemOf(itemDto) ==
    LET productDetails == getProductDetails(itemDto.productId)
    IN  [productId |-> itemDto.productId,
         productName |-> productDetails.name,
         unitPrice |-> productDetails.price,
         quantity |-> itemDto.quantity,
         subtotal |-> ItemSubtotal(productDetails.price, itemDto.quantity)]

\* create: totalAmount += subtotal, over the items in order
RECURSIVE TotalAmount(_)
TotalAmount(orderItems) ==
    IF orderItems = <<>> THEN 0
    ELSE Head(orderItems).subtotal + TotalAmount(Tail(orderItems))

\* a create whose orders start in en_procesamiento
NewOrder_Processing(dto) ==
    LET orderItems == [i \in 1..Len(dto.items) |-> OrderItemOf(dto.items[i])]
    IN  [NoOrder EXCEPT !.clientId = dto.clientId,
                        !.clientName = ClientName(dto.clientId),
                        !.clientEmail = ClientEmail(dto.clientId),
                        !.shippingAddress = ShippingAddress(dto.clientId),
                        !.status = "en_procesamiento",
                        !.items = orderItems,
                        !.total = TotalAmount(orderItems)]

\* create: the order entity built from the request, before it is saved
NewOrder(dto) ==
    LET orderItems == [i \in 1..Len(dto.items) |-> OrderItemOf(dto.items[i])]
    IN  [NoOrder EXCEPT !.clientId = dto.clientId,
                        !.clientName = ClientName(dto.clientId),
                        !.clientEmail = ClientEmail(dto.clientId),
                        !.shippingAddress = ShippingAddress(dto.clientId),
                        !.status = "pendiente",
                        !.items = orderItems,
                        !.total = TotalAmount(orderItems)]

\* ------------------------------------------------------------------ rules
\* validateStatusTransition: the validTransitions table
validTransitions(currentStatus) ==
    CASE currentStatus = "pendiente" -> {"en_procesamiento", "cancelado"}
      [] currentStatus = "en_procesamiento" -> {"enviado", "cancelado"}
      [] currentStatus = "enviado" -> {"entregado", "cancelado"}
      [] currentStatus = "entregado" -> {}
      [] currentStatus = "cancelado" -> {}
      [] OTHER -> {}

\* a transition check that lets every status follow every status
validateStatusTransition_Any(currentStatus, newStatus) == TRUE

\* a transition check that lets a status follow itself
validateStatusTransition_Self(currentStatus, newStatus) ==
    newStatus \in validTransitions(currentStatus) \cup {currentStatus}

\* validateStatusTransition: TRUE when it returns, FALSE when it throws
validateStatusTransition(currentStatus, newStatus) ==
    newStatus \in validTransitions(currentStatus)

\* a tracking check that takes the empty string for a number
TrackingMissing_NullOnly(trackingNumber) == trackingNumber = NULL

\* updateStatus: !updateDto.trackingNumber
TrackingMissing(trackingNumber) == trackingNumber = NULL \/ trackingNumber = ""

\* an eligibility check that forgets entregado
CancelAllowed_Delivered(status) == status \notin {"cancelado"}

\* cancel: ['entregado', 'cancelado'].includes(order.status) is false
CancelAllowed(status) == status \notin {"entregado", "cancelado"}

\* a cancel that records its default whatever the caller says
CancelReason_Default(reason) == "Cancelado por el usuario"

\* cancel: cancelDto.cancellationReason || 'Cancelado por el usuario'
CancelReason(reason) ==
    IF reason = NULL \/ reason = "" THEN "Cancelado por el usuario" ELSE reason

\* a handler that checks the order is there, and not its status
FailedStockApplies_AnyStatus(order) == order # NoOrder

\* handleFailedStock: !order || order.status !== 'pendiente' is false
FailedStockApplies(order) == order # NoOrder /\ order.status = "pendiente"

\* a findOne that leaves the isDeleted condition out
FindOne_Deleted(id) == IF id \in Ids THEN store[id] ELSE NoOrder

\* findOne({ where: { id, isDeleted: false } }): the row, or NoOrder
FindOne(id) ==
    IF id \in Ids /\ store[id] # NoOrder /\ ~store[id].isDeleted THEN store[id] ELSE NoOrder

\* ------------------------------------------------------------------ broker client, as the operations use it
QueueNames == {"order.created", "order.shipped", "order.delivered", "order.failed.stock"}

\* ensureQueue then sendToQueue go through: a channel exists and is open
ChannelUsable == channel = "open"

\* the property names of the payloads, in the order their object literals
\* write them
PayloadKeys == <<"orderId", "clientId", "clientEmail", "trackingNumber", "products",
                 "items", "productId", "quantity">>

\* the elements of a finite set, one after the other
SeqOf(S) == CHOOSE s \in [1..Cardinality(S) -> S] : \A i, j \in DOMAIN s : i # j => s[i] # s[j]

\* JSON text is modelled by its tokens: an object is the sequence of its
\* members <<name, value>>, an array the sequence of its elements, a string or
\* a number itself.  The text of an object whose properties are all scalars
JsonFlat(object) ==
    LET keys == SelectSeq(PayloadKeys, LAMBDA k : k \in DOMAIN object)
    IN  [i \in 1..Len(keys) |-> <<keys[i], object[keys[i]]>>]

\* the text of the productId -> quantity object
JsonMap(object) ==
    LET keys == SeqOf(DOMAIN object)
    IN  [i \in 1..Len(keys) |-> <<keys[i], object[keys[i]]>>]

\* a stringify that writes every nested object as {}
JsonStringify_Shallow(payload) ==
    LET keys == SelectSeq(PayloadKeys, LAMBDA k : k \in DOMAIN payload)
    IN  [i \in 1..Len(keys) |->
            <<keys[i], IF keys[i] \in {"products", "items"} THEN <<>> ELSE payload[keys[i]]>>]

\* publishMessage: JSON.stringify(payload), for the payloads of the service:
\* scalars, the products object, the items array
JsonStringify(payload) ==
    LET keys == SelectSeq(PayloadKeys, LAMBDA k : k \in DOMAIN payload)
        text(k) == CASE k = "products" -> JsonMap(payload[k])
                     [] k = "items" -> [j \in 1..Len(payload[k]) |-> JsonFlat(payload[k][j])]
                     [] OTHER -> payload[k]
    IN  [i \in 1..Len(keys) |-> <<keys[i], text(keys[i])>>]

\* the object of a sequence of members: a name that comes twice keeps its
\* last value
JsonObject(members) ==
    [k \in {members[i][1] : i \in DOMAIN members} |->
        LET lastIdx == CHOOSE i \in DOMAIN members :
                        /\ members[i][1] = k
                        /\ \A j \in DOMAIN members : j > i => members[j][1] # k
        IN  members[lastIdx][2]]

\* the consuming side: JSON.parse(msg.content.toString())
JsonParse(text) ==
    LET object == JsonObject(text)
    IN  [k \in DOMAIN object |->
            CASE k = "products" -> JsonObject(object[k])
              [] k = "items" -> [j \in 1..Len(object[k]) |-> JsonObject(object[k][j])]
              [] OTHER -> object[k]]

\* publishMessage sends: the queues after the payload went to the queue as
\* JSON text; a queue is shown as its messages decoded
SendToQueue(queue, payload) ==
    [queues EXCEPT ![queue] = Append(@, JsonParse(JsonStringify(payload)))]

\* publishOrderCreatedEvent: the productId -> quantity map reduced from the items
ProductsMap(items) ==
    [p \in {items[i].productId : i \in 1..Len(items)} |->
        LET lastIdx == CHOOSE i \in 1..Len(items) :
                        /\ items[i].productId = p
                        /\ \A j \in (i+1)..Len(items) : items[j].productId # p
        IN  items[lastIdx].quantity]

\* publishOrderCreatedEvent: the payload of order.created
OrderCreatedPayload(order) == [orderId |-> order.id, products |-> ProductsMap(order.items)]

\* updateStatus, case 'enviado': the payload of order.shipped
OrderShippedPayload(order) ==
    [orderId |-> order.id, clientId |-> order.clientId, clientEmail |-> order.clientEmail,
     trackingNumber |-> order.trackingNumber,
     items |-> [i \in 1..Len(order.items) |->
                  [productId |-> order.items[i].productId,
                   quantity |-> order.items[i].quantity]]]

\* updateStatus, case 'entregado': the payload of order.delivered
OrderDeliveredPayload(order) ==
    [orderId |-> order.id, clientId |-> order.clientId, clientEmail |-> order.clientEmail]

\* ------------------------------------------------------------------ tasks
EmptyStore == [i \in Ids |-> NoOrder]

\* a message of order.failed.stock after JSON.parse: data.message and, in it,
\* orderId and OrderId (0: the property is missing)
NoMessage == [message |-> FALSE, orderId |-> 0, OrderId |-> 0]
FailedStockMessages ==
    {NoMessage} \cup [message : {TRUE}, orderId : Ids \cup {0}, OrderId : Ids \cup {0}]

\* a task that runs nothing.  unavailable: the products the stock validation
\* named; detail: the body of the error thrown; wrote, published, notified,
\* faulted: the operation saved to the store, sent a message, called the
\* notifier, met a failure of the store or of the broker; acked: the consumer
\* callback has acknowledged the message the operation handles; mailed: the
\* notifier, when called, got its mail out; rpc, userId, role: the gRPC method
\* the operation was called through and its caller, NULL for a call of the
\* service itself; clientId: the client a request names; rows: the ids of the
\* orders a query returned; config: the queue name a publish method read from
\* the configuration; asserted: ensureQueue called channel.assertQueue;
\* steps: what create has done so far, in the order it did it
IdleTask == [op |-> "none", pc |-> "idle", id |-> 0, status |-> NULL,
             trackingNumber |-> NULL, reason |-> NULL, data |-> NoMessage,
             order |-> NoOrder, previousStatus |-> NULL,
             unavailable |-> {}, result |-> NULL, detail |-> {},
             wrote |-> FALSE, published |-> FALSE, notified |-> FALSE, faulted |-> FALSE,
             acked |-> FALSE, mailed |-> FALSE,
             rpc |-> NULL, userId |-> NULL, role |-> NULL, clientId |-> NULL, rows |-> {},
             config |-> NULL, asserted |-> FALSE, steps |-> <<>>]

\* the caller of the operation that ended last has not taken its answer yet
Answering == last.pc = "done"
Idle(t) == tasks[t].pc = "idle"
At(t, op, pc) == ~Answering /\ tasks[t].op = op /\ tasks[t].pc = pc
\* a new operation takes the first task that is free
Free(t) == ~Answering /\ Idle(t) /\ \A u \in Tasks : u < t => ~Idle(u)
\* no other operation is in flight
Alone(t) == \A u \in Tasks \ {t} : Idle(u)

Faulted(task) == [task EXCEPT !.faulted = TRUE]
\* the operation has come to step
Did(task, step) == [task EXCEPT !.steps = Append(@, step)]

\* handleRpcError: the gRPC status code of the RpcException thrown for an error
handleRpcError(error) ==
    CASE error = "Forbidden" -> "PERMISSION_DENIED"
      [] error = "NotFound" -> "NOT_FOUND"
      [] error = "BadRequest" -> "INVALID_ARGUMENT"
      [] OTHER -> "INTERNAL"

\* what the caller of an operation gets: the service's own return or error, and
\* through a gRPC method the response or the error handleRpcError makes
Answer(task, result) ==
    IF task.rpc = NULL \/ result = "ok" THEN result ELSE handleRpcError(result)
\* the operation of task t goes on as task
Continue(t, task) == tasks' = [tasks EXCEPT ![t] = task] /\ UNCHANGED last
\* the operation of task t returns or throws result: the tasks in flight stay
\* in the order they started in, and the answer of an operation that ends
\* while no other is in flight is kept for its caller
Complete(t, task, result) ==
    /\ tasks' = [u \in Tasks |-> IF u < t THEN tasks[u]
                               ELSE IF u + 1 \in Tasks THEN tasks[u + 1] ELSE IdleTask]
    /\ last' = IF Alone(t) THEN [task EXCEPT !.pc = "done", !.result = Answer(task, result)]
               ELSE last

\* the id the store gives the next inserted order
NextId == CHOOSE i \in Ids : store[i] = NoOrder /\ \A j \in Ids : j < i => store[j] # NoOrder
StoreFull == \A i \in Ids : store[i] # NoOrder

\* repository.save(order) of a loaded order: the row becomes the entity
SaveRow(order) == [store EXCEPT ![order.id] = order]

\* validateStock: the answer of the Inventory Service for the items
StockAnswer(unavailable) ==
    [allAvailable |-> unavailable = {}, unavailable |-> unavailable]

\* the notifier is called with the saved order; it catches its own errors, and
\* touches neither the store nor the broker
Notified(task) == [task EXCEPT !.notified = TRUE]

\* the notifier is called with the saved order, and its send goes out or not
NotifiedWith(task, sent) == [Notified(task) EXCEPT !.mailed = sent]

\* a notifier that lets the error of a failed send out
NotifierThrows_OnFailure(sent) == ~sent

\* SendGridService.sendOrderConfirmationEmail / sendOrderStatusUpdateEmail /
\* sendOrderCancellationEmail: the whole body is in a try whose catch logs, so
\* a failed send throws nothing
NotifierThrows(sent) == FALSE

\* an operation that fails when the mail of its notifier did not go out
AfterNotify_MailRequired(sent, result, failure) == IF sent THEN result ELSE failure

\* what an operation answers after its call of the notifier: result, or
\* failure when the notifier threw into the operation's catch
AfterNotify(sent, result, failure) == IF NotifierThrows(sent) THEN failure ELSE result

\* ------------------------------------------------------------------ create
\* a create that goes on whatever the stock validation answers
StockAllows_Always(productsWithStock) == TRUE

\* create: !productsWithStock.allAvailable is false
StockAllows(productsWithStock) == productsWithStock.allAvailable

\* create up to the save, called as the task from: stock validation, then the
\* entity and its items
CreateFrom(t, from, dto, unavailable) ==
    /\ Free(t)
    /\ LET productsWithStock == StockAnswer(unavailable)
           call == [from EXCEPT !.op = "create", !.clientId = dto.clientId,
                                !.unavailable = productsWithStock.unavailable]
       IN  IF ~StockAllows(productsWithStock)
           THEN Complete(t, [call EXCEPT !.detail = productsWithStock.unavailable],
                         "BadRequest")
           ELSE Continue(t, [call EXCEPT !.pc = "save", !.order = NewOrder(dto)])
    /\ UNCHANGED <<store, queues, clock, brokerVars>>

\* create, called on the service
CreateCall(t, dto, unavailable) == CreateFrom(t, IdleTask, dto, unavailable)

\* create: const savedOrder = await this.orderRepository.save(order)
CreateSave(t, ok) ==
    /\ At(t, "create", "save")
    /\ IF ok
       THEN /\ ~StoreFull
            /\ LET savedOrder == [tasks[t].order EXCEPT !.id = NextId]
               IN  /\ store' = SaveRow(savedOrder)
                   /\ Continue(t, Did([tasks[t] EXCEPT !.pc = "publish", !.order = savedOrder,
                                                       !.id = savedOrder.id, !.wrote = TRUE],
                                       "save"))
       ELSE /\ Complete(t, Faulted(tasks[t]), "InternalServerError")
            /\ UNCHANGED store
    /\ UNCHANGED <<queues, clock, brokerVars>>

\* create: await this.publishOrderCreatedEvent(savedOrder), which catches, then
\* await this.sendGridService.sendOrderConfirmationEmail(savedOrder), and return
CreatePublish(t, sent) ==
    /\ At(t, "create", "publish")
    /\ IF ChannelUsable
       THEN /\ Len(queues["order.created"]) < MaxQueue
            /\ queues' = SendToQueue("order.created", OrderCreatedPayload(tasks[t].order))
            /\ Complete(t, Did(NotifiedWith(Did([tasks[t] EXCEPT !.published = TRUE],
                                                 "publish"), sent), "notify"),
                        AfterNotify(sent, "ok", "InternalServerError"))
       ELSE /\ Complete(t, Did(NotifiedWith(Did(Faulted(tasks[t]), "publish"), sent),
                               "notify"),
                        AfterNotify(sent, "ok", "InternalServerError"))
            /\ UNCHANGED queues
    /\ UNCHANGED <<store, clock, brokerVars>>

\* ------------------------------------------------------------------ updateStatus
\* an updateStatus that refunds a cancelled order by clearing its total
ApplyStatus_Refund(order, status, trackingNumber) ==
    LET moved == [order EXCEPT !.status = status]
    IN  CASE status = "enviado" ->
                [moved EXCEPT !.trackingNumber = trackingNumber, !.shippedAt = clock]
          [] status = "entregado" -> [moved EXCEPT !.deliveredAt = clock]
          [] status = "cancelado" -> [moved EXCEPT !.cancelledAt = clock, !.total = 0]
          [] OTHER -> moved

\* updateStatus, the switch on updateDto.status: the fields set on the entity
ApplyStatus(order, status, trackingNumber) ==
    LET moved == [order EXCEPT !.status = status]
    IN  CASE status = "enviado" ->
                [moved EXCEPT !.trackingNumber = trackingNumber, !.shippedAt = clock]
          [] status = "entregado" -> [moved EXCEPT !.deliveredAt = clock]
          [] status = "cancelado" -> [moved EXCEPT !.cancelledAt = clock]
          [] OTHER -> moved

\* an updateStatus that publishes an event for a cancellation too
PublishesOn_Cancelado(status) == status \in {"enviado", "entregado", "cancelado"}

\* updateStatus: the statuses whose case publishes an event, before the save
PublishesOn(status) == status \in {"enviado", "entregado"}

\* updateStatus from the call to its first await after findOne, called as the
\* task from: the load, the transition check, and the fields of the requested
\* status
UpdateFrom(t, from, id, status, trackingNumber, ok) ==
    /\ Free(t)
    /\ LET call == [from EXCEPT !.op = "updateStatus", !.id = id, !.status = status,
                                    !.trackingNumber = trackingNumber]
           order == FindOne(id)
           loaded == [call EXCEPT !.previousStatus = order.status]
       IN  IF ~ok THEN Complete(t, Faulted(call), "InternalServerError")
           ELSE IF order = NoOrder THEN Complete(t, call, "NotFound")
           ELSE IF ~validateStatusTransition(order.status, status)
                THEN Complete(t, [loaded EXCEPT !.order = order], "BadRequest")
           ELSE IF status = "enviado" /\ TrackingMissing(trackingNumber)
                THEN Complete(t, [loaded EXCEPT !.order = [order EXCEPT !.status = status]],
                              "BadRequest")
           ELSE Continue(t, [loaded EXCEPT
                                !.order = ApplyStatus(order, status, trackingNumber),
                                !.pc = IF PublishesOn(status) THEN "publish" ELSE "save"])
    /\ UNCHANGED <<store, queues, clock, brokerVars>>

\* updateStatus, called on the service
UpdateLoad(t, id, status, trackingNumber, ok) ==
    UpdateFrom(t, IdleTask, id, status, trackingNumber, ok)

\* updateStatus: await publishOrderShipped / publishOrderDelivered; a failed
\* publish throws and ends the call
UpdatePublish(t) ==
    /\ At(t, "updateStatus", "publish")
    /\ LET order == tasks[t].order
           queue == IF order.status = "enviado" THEN "order.shipped" ELSE "order.delivered"
           payload == IF order.status = "enviado" THEN OrderShippedPayload(order)
                      ELSE OrderDeliveredPayload(order)
       IN  IF ChannelUsable
           THEN /\ Len(queues[queue]) < MaxQueue
                /\ queues' = SendToQueue(queue, payload)
                /\ Continue(t, [tasks[t] EXCEPT !.pc = "save", !.published = TRUE])
           ELSE /\ Complete(t, Faulted(tasks[t]), "InternalServerError")
                /\ UNCHANGED queues
    /\ UNCHANGED <<store, clock, brokerVars>>

\* updateStatus: const updatedOrder = await this.orderRepository.save(order),
\* then await sendOrderStatusUpdateEmail(updatedOrder, previousStatus), and return
UpdateSave(t, ok, sent) ==
    /\ At(t, "updateStatus", "save")
    /\ IF ok
       THEN /\ store' = SaveRow(tasks[t].order)
            /\ Complete(t, NotifiedWith([tasks[t] EXCEPT !.wrote = TRUE], sent),
                        AfterNotify(sent, "ok", "InternalServerError"))
       ELSE /\ Complete(t, Faulted(tasks[t]), "InternalServerError")
            /\ UNCHANGED store
    /\ UNCHANGED <<queues, clock, brokerVars>>

\* ------------------------------------------------------------------ cancel
\* cancel from the call to the save, called as the task from: the load, the
\* eligibility check, the fields
CancelFrom(t, from, id, reason, ok) ==
    /\ Free(t)
    /\ LET call == [from EXCEPT !.op = "cancel", !.id = id, !.reason = reason]
           order == FindOne(id)
           loaded == [call EXCEPT !.previousStatus = order.status]
       IN  IF ~ok THEN Complete(t, Faulted(call), "InternalServerError")
           ELSE IF order = NoOrder THEN Complete(t, call, "NotFound")
           ELSE IF ~CancelAllowed(order.status)
                THEN Complete(t, [loaded EXCEPT !.order = order], "BadRequest")
           ELSE Continue(t, [loaded EXCEPT !.pc = "save",
                                !.order = [order EXCEPT !.status = "cancelado",
                                              !.cancellationReason = CancelReason(reason),
                                              !.cancelledAt = clock]])
    /\ UNCHANGED <<store, queues, clock, brokerVars>>

\* cancel, called on the service
CancelLoad(t, id, reason, ok) == CancelFrom(t, IdleTask, id, reason, ok)

\* cancel: const cancelledOrder = await this.orderRepository.save(order), then
\* await sendOrderCancellationEmail(cancelledOrder), and return
CancelSave(t, ok, sent) ==
    /\ At(t, "cancel", "save")
    /\ IF ok
       THEN /\ store' = SaveRow(tasks[t].order)
            /\ Complete(t, NotifiedWith([tasks[t] EXCEPT !.wrote = TRUE], sent),
                        AfterNotify(sent, "ok", "InternalServerError"))
       ELSE /\ Complete(t, Faulted(tasks[t]), "InternalServerError")
            /\ UNCHANGED store
    /\ UNCHANGED <<queues, clock, brokerVars>>

\* ------------------------------------------------------------------ handleFailedStock
\* a handler that takes the first order when the message names none
MessageOrderId_First(data) ==
    IF data.orderId # 0 THEN data.orderId ELSE IF data.OrderId # 0 THEN data.OrderId ELSE 1

\* handleFailedStock: messagePayload.orderId || messagePayload.OrderId
MessageOrderId(data) == IF data.orderId # 0 THEN data.orderId ELSE data.OrderId

\* the consumer callback of order.failed.stock on a delivered message that
\* JSON.parse decodes: callback(content) starts handleFailedStock, which runs
\* to its first await (the envelope checks, then findOne) and hands back a
\* promise the callback does not await; channel.ack(msg) follows at once.  The
\* step ends when findOne has answered: the load and the pendiente check
FailedStockLoad(t, data, ok) ==
    /\ Free(t)
    /\ consumer = "active"
    /\ LET call == [IdleTask EXCEPT !.op = "handleFailedStock", !.data = data,
                                    !.acked = TRUE]
           orderId == MessageOrderId(data)
           order == FindOne(orderId)
           loaded == [call EXCEPT !.id = orderId, !.previousStatus = order.status]
       IN  IF ~data.message THEN Complete(t, call, "schema")
           ELSE IF orderId = 0 THEN Complete(t, call, "schema")
           ELSE IF ~ok THEN Complete(t, Faulted([call EXCEPT !.id = orderId]), "error")
           ELSE IF ~FailedStockApplies(order)
                THEN Complete(t, [loaded EXCEPT !.order = order], "discarded")
           ELSE Continue(t, [loaded EXCEPT !.pc = "save",
                                !.order = [order EXCEPT !.status = "cancelado",
                                              !.cancellationReason = "Stock insuficiente",
                                              !.cancelledAt = clock]])
    /\ UNCHANGED <<store, queues, clock, brokerVars>>

\* handleFailedStock: await this.orderRepository.save(order), then
\* await sendOrderCancellationEmail(order); an error is caught and logged
FailedStockSave(t, ok, sent) ==
    /\ At(t, "handleFailedStock", "save")
    /\ IF ok
       THEN /\ store' = SaveRow(tasks[t].order)
            /\ Complete(t, NotifiedWith([tasks[t] EXCEPT !.wrote = TRUE], sent),
                        AfterNotify(sent, "cancelled", "error"))
       ELSE /\ Complete(t, Faulted(tasks[t]), "error")
            /\ UNCHANGED store
    /\ UNCHANGED <<queues, clock, brokerVars>>

\* ------------------------------------------------------------------ queries
\* a string that counts as true in a condition: not undefined and not ''
Truthy(s) == s # NULL /\ s # ""

\* the filters of a QueryOrderDto: none, a client, a status
QueryOrderDtos == [clientId : {NULL, "c1", "c2"}, status : {NULL, "pendiente"}]

\* findOne of the service: the order, or the error it throws
FindOneAnswer(id, ok) ==
    IF ~ok THEN "InternalServerError"
    ELSE IF FindOne(id) = NoOrder THEN "NotFound" ELSE "ok"

\* findOne, called on the service
FindOneCall(t, id, ok) ==
    /\ Free(t)
    /\ LET call == [IdleTask EXCEPT !.op = "findOne", !.id = id]
           order == FindOne(id)
       IN  Complete(t, IF ~ok THEN Faulted(call)
                       ELSE IF order = NoOrder THEN call
                       ELSE [call EXCEPT !.order = order, !.previousStatus = order.status,
                                         !.rows = {id}],
                    FindOneAnswer(id, ok))
    /\ UNCHANGED <<store, queues, clock, brokerVars>>

\* findAll: the rows of the query builder, where isDeleted = false and each
\* filter of the dto that is set
FindAllRows(queryDto) ==
    {id \in Ids : /\ store[id] # NoOrder
                  /\ ~store[id].isDeleted
                  /\ Truthy(queryDto.clientId) => store[id].clientId = queryDto.clientId
                  /\ Truthy(queryDto.status) => store[id].status = queryDto.status}

\* findAll, called as the task from
FindAllFrom(t, from, queryDto, ok) ==
    /\ Free(t)
    /\ LET call == [from EXCEPT !.op = "findAll", !.clientId = queryDto.clientId,
                                !.status = queryDto.status]
       IN  IF ok THEN Complete(t, [call EXCEPT !.rows = FindAllRows(queryDto)], "ok")
           ELSE Complete(t, Faulted(call), "InternalServerError")
    /\ UNCHANGED <<store, queues, clock, brokerVars>>

\* findAll, called on the service
FindAllCall(t, queryDto, ok) == FindAllFrom(t, IdleTask, queryDto, ok)

\* getClientHistory: findAll({ clientId }), called as the task from
HistoryFrom(t, from, clientId, ok) ==
    FindAllFrom(t, from, [clientId |-> clientId, status |-> NULL], ok)

\* getClientHistory, called on the service
HistoryCall(t, clientId, ok) == HistoryFrom(t, IdleTask, clientId, ok)

\* ------------------------------------------------------------------ OrdersController
\* the metadata of a call: x-user-id and x-user-role, each present or not
Metadatas == [userId : {NULL, "c1", "c2"}, role : {NULL, "client", "admin"}]

\* extractUserFromMetadata: meta['x-user-id'] || '', meta['x-user-role'] || 'client'
extractUserFromMetadata(meta) ==
    [userId |-> IF Truthy(meta.userId) THEN meta.userId ELSE "",
     role |-> IF Truthy(meta.role) THEN meta.role ELSE "client"]

\* the task of a gRPC method called by user
RpcTask(rpc, user) == [IdleTask EXCEPT !.rpc = rpc, !.userId = user.userId, !.role = user.role]

\* an updateOrderStatus open to every role
MayUpdateStatus_AnyRole(user) == TRUE

\* updateOrderStatus: user.role !== 'admin' is false
MayUpdateStatus(user) == user.role = "admin"

\* createOrder, findOneOrder, cancelOrder, getClientHistory:
\* user.role === 'client' && clientId !== user.userId is false
MayActFor(user, clientId) == ~(user.role = "client" /\ clientId # user.userId)

\* a gRPC method throws error before it calls the service
Rejected(t, call, error) ==
    /\ Free(t)
    /\ Complete(t, call, error)
    /\ UNCHANGED <<store, queues, clock, brokerVars>>

\* CreateOrder
createOrder(t, meta, dto, unavailable) ==
    LET user == extractUserFromMetadata(meta)
        call == [RpcTask("CreateOrder", user) EXCEPT !.clientId = dto.clientId]
    IN  IF ~Truthy(dto.clientId) THEN Rejected(t, call, "BadRequest")
        ELSE IF ~MayActFor(user, dto.clientId) THEN Rejected(t, call, "Forbidden")
        ELSE CreateFrom(t, call, dto, unavailable)

\* FindAllOrders: a client's query gets the caller's user id as its clientId
findAllOrders(t, meta, queryDto, ok) ==
    LET user == extractUserFromMetadata(meta)
        effectiveQueryDto == IF user.role = "client"
                             THEN [queryDto EXCEPT !.clientId = user.userId]
                             ELSE queryDto
    IN  FindAllFrom(t, RpcTask("FindAllOrders", user), effectiveQueryDto, ok)

\* FindOneOrder; id 0: the request has no id
findOneOrder(t, meta, id, ok) ==
    LET user == extractUserFromMetadata(meta)
        call == [RpcTask("FindOneOrder", user) EXCEPT !.id = id]
        order == FindOne(id)
        found == [call EXCEPT !.op = "findOne", !.previousStatus = order.status]
    IN  IF id = 0 THEN Rejected(t, call, "BadRequest")
        ELSE IF ~ok THEN Rejected(t, Faulted([call EXCEPT !.op = "findOne"]),
                                  "InternalServerError")
        ELSE IF order = NoOrder THEN Rejected(t, [call EXCEPT !.op = "findOne"], "NotFound")
        ELSE IF ~MayActFor(user, order.clientId) THEN Rejected(t, found, "Forbidden")
        ELSE Rejected(t, [found EXCEPT !.order = order, !.rows = {id}], "ok")

\* UpdateOrderStatus; id 0: the request has no id
updateOrderStatus(t, meta, id, status, trackingNumber, ok) ==
    LET user == extractUserFromMetadata(meta)
        call == [RpcTask("UpdateOrderStatus", user) EXCEPT !.id = id, !.status = status]
    IN  IF ~MayUpdateStatus(user) THEN Rejected(t, call, "Forbidden")
        ELSE IF id = 0 \/ ~Truthy(status) THEN Rejected(t, call, "BadRequest")
        ELSE UpdateFrom(t, call, id, status, trackingNumber, ok)

\* CancelOrder: findOne for the ownership check, then cancel; id 0: the request
\* has no id
cancelOrder(t, meta, id, reason, okAuth, ok) ==
    LET user == extractUserFromMetadata(meta)
        call == [RpcTask("CancelOrder", user) EXCEPT !.id = id, !.reason = reason]
        orderToAuth == FindOne(id)
    IN  IF id = 0 THEN Rejected(t, call, "BadRequest")
        ELSE IF ~okAuth THEN Rejected(t, Faulted([call EXCEPT !.op = "findOne"]),
                                      "InternalServerError")
        ELSE IF orderToAuth = NoOrder
             THEN Rejected(t, [call EXCEPT !.op = "findOne"], "NotFound")
        ELSE IF ~MayActFor(user, orderToAuth.clientId)
             THEN Rejected(t, [call EXCEPT !.op = "findOne",
                                           !.previousStatus = orderToAuth.status],
                           "Forbidden")
        ELSE CancelFrom(t, call, id, reason, ok)

\* GetClientHistory
getClientHistory(t, meta, clientId, ok) ==
    LET user == extractUserFromMetadata(meta)
        call == [RpcTask("GetClientHistory", user) EXCEPT !.clientId = clientId]
    IN  IF ~Truthy(clientId) THEN Rejected(t, call, "BadRequest")
        ELSE IF ~MayActFor(user, clientId) THEN Rejected(t, call, "Forbidden")
        ELSE HistoryFrom(t, call, clientId, ok)

\* ------------------------------------------------------------------ environment of the operations
\* the caller takes the answer of the operation that ended last
Return ==
    /\ Answering
    /\ last' = IdleTask
    /\ UNCHANGED <<store, tasks, queues, clock, brokerVars>>

\* time passes
Tick ==
    /\ ~Answering
    /\ clock < MaxClock
    /\ clock' = clock + 1
    /\ UNCHANGED <<store, tasks, last, queues, brokerVars>>

\* ------------------------------------------------------------------ RabbitMQService: connection
\* private readonly maxReconnectAttempts = 10
maxReconnectAttempts == 10

Min(a, b) == IF a < b THEN a ELSE b

\* a backoff with no cap
BackoffDelay_Uncapped(n) == 1000 * 2^n

\* Math.min(1000 * Math.pow(2, n), 30000)
BackoffDelay(n) == Min(1000 * 2^n, 30000)

\* connect, catch: retryCount < this.maxReconnectAttempts
MayRetry(count) == count < maxReconnectAttempts

\* a close handler that never reconnects
MayReconnect_Never(attempts) == FALSE

\* reconnect: this.reconnectAttempts < this.maxReconnectAttempts
MayReconnect(attempts) == attempts < maxReconnectAttempts

\* the consumer of a channel that closed receives nothing more
ConsumerAfterClose == IF consumer = "active" THEN "lost" ELSE consumer

\* connection.on('close'): the connection and its channel are closed, and the
\* handler calls reconnect(), which counts the attempt and starts its wait
CloseEvent ==
    /\ connection' = "closed"
    /\ channel' = "closed"
    /\ consumer' = ConsumerAfterClose
    /\ IF MayReconnect(reconnectAttempts)
       THEN /\ reconnectAttempts' = reconnectAttempts + 1
            /\ lastDelay' = BackoffDelay(reconnectAttempts + 1)
            /\ connPc' = "reconnectWait"
       ELSE UNCHANGED <<reconnectAttempts, lastDelay, connPc>>
    /\ UNCHANGED retryCount

\* connect, catch: the backoff before the next attempt, or giving up
ConnectCatch ==
    /\ IF MayRetry(retryCount)
       THEN /\ lastDelay' = BackoffDelay(retryCount)
            /\ connPc' = "backoff"
       ELSE /\ connPc' = "gaveUp"
            /\ UNCHANGED lastDelay
    /\ UNCHANGED <<reconnectAttempts, retryCount>>

\* this.connection = await amqp.connect(rabbitmqUrl): an open connection the
\* field held is open still, and nothing refers to it any more
LeakedAfterConnect == IF connection = "bare" THEN leaked + 1 ELSE leaked

\* the connections to the broker that are open: the one this.connection holds
\* and those it held
OpenConnections == leaked + (IF connection \in {"open", "bare"} THEN 1 ELSE 0)

\* one run of the body of connect(retryCount): the connection, the channel and
\* the four queues, or the catch with its backoff or its giving up
ConnectAttempt ==
    /\ connPc = "connecting"
    /\ IF brokerUp
       THEN /\ connection' = "open"
            /\ channel' = "open"
            /\ leaked' = LeakedAfterConnect
            /\ reconnectAttempts' = 0
            /\ connPc' = "idle"
            /\ UNCHANGED <<retryCount, lastDelay>>
       ELSE /\ ConnectCatch
            /\ UNCHANGED <<connection, channel, leaked>>
    /\ UNCHANGED <<brokerUp, consumer, destroyed, orderVars>>

\* one run of the body of connect(retryCount) in which amqp.connect resolves and
\* createChannel or an assertQueue rejects: this.connection is the new
\* connection, with no handler on it, and the catch runs
ConnectPartial ==
    /\ connPc = "connecting"
    /\ brokerUp
    /\ LeakedAfterConnect < MaxLeaked
    /\ connection' = "bare"
    /\ leaked' = LeakedAfterConnect
    /\ ConnectCatch
    /\ UNCHANGED <<brokerUp, channel, consumer, destroyed, orderVars>>

\* connect, catch: the wait is over, return this.connect(retryCount + 1)
BackoffElapsed ==
    /\ connPc = "backoff"
    /\ retryCount' = retryCount + 1
    /\ connPc' = "connecting"
    /\ UNCHANGED <<brokerUp, connection, channel, consumer, reconnectAttempts, lastDelay,
                   destroyed, leaked, orderVars>>

\* reconnect: the wait is over, await this.connect()
ReconnectElapsed ==
    /\ connPc = "reconnectWait"
    /\ retryCount' = 0
    /\ connPc' = "connecting"
    /\ UNCHANGED <<brokerUp, connection, channel, consumer, reconnectAttempts, lastDelay,
                   destroyed, leaked, orderVars>>

\* the established connection drops while the broker stays reachable
ConnectionLost ==
    /\ ~Answering
    /\ connection = "open"
    /\ CloseEvent
    /\ UNCHANGED <<brokerUp, destroyed, leaked, orderVars>>

\* the consumer callback on a delivered message whose content is not JSON:
\* JSON.parse throws out of the callback, before callback(content) and before
\* channel.ack(msg); nothing in the service catches it.  What the amqplib
\* dispatcher does with the exception is not in the repository: the consumer
\* stays, or the connection is closed on the error (closes)
ConsumeUndecodable(t, closes) ==
    /\ Free(t)
    /\ consumer = "active"
    /\ Complete(t, [IdleTask EXCEPT !.op = "consume"], "SyntaxError")
    /\ IF closes THEN CloseEvent
       ELSE UNCHANGED <<connection, channel, consumer, connPc, retryCount,
                        reconnectAttempts, lastDelay>>
    /\ UNCHANGED <<store, queues, clock, brokerUp, destroyed, leaked>>

\* the broker goes down, and every open connection closes with it: the
\* established one with its close event, the others unnoticed
BrokerDown ==
    /\ ~Answering
    /\ brokerUp
    /\ brokerUp' = FALSE
    /\ IF connection = "open" THEN CloseEvent
       ELSE /\ connection' = IF connection = "bare" THEN "closed" ELSE connection
            /\ UNCHANGED <<channel, consumer, connPc, retryCount, reconnectAttempts,
                           lastDelay>>
    /\ leaked' = 0
    /\ UNCHANGED <<destroyed, orderVars>>

\* the broker is reachable again
BrokerBack ==
    /\ ~brokerUp
    /\ brokerUp' = TRUE
    /\ UNCHANGED <<connection, channel, consumer, connPc, retryCount, reconnectAttempts,
                   lastDelay, destroyed, leaked, orderVars>>

\* RabbitMQService.onModuleInit: await this.connect() has returned.  connect
\* returns once an attempt succeeded, and also once its attempts are spent:
\* its catch logs and throws nothing
ConnectReturned == connection \in {"open", "closed"} \/ connPc = "gaveUp"

\* OrdersService.onModuleInit, once RabbitMQService.onModuleInit has returned:
\* consumeMessages('order.failed.stock', ...).  An error of ensureQueue or of
\* channel.consume is caught and logged, and the call returns as it does when
\* the consumer is registered
ConsumeMessages ==
    /\ ~Answering
    /\ consumer = "unregistered"
    /\ ConnectReturned
    /\ consumer' = IF ChannelUsable THEN "active" ELSE "none"
    /\ last' = [IdleTask EXCEPT !.op = "consumeMessages", !.pc = "done", !.result = "ok",
                                !.faulted = ~ChannelUsable]
    /\ UNCHANGED <<brokerUp, connection, channel, connPc, retryCount, reconnectAttempts,
                   lastDelay, destroyed, leaked, store, tasks, queues, clock>>

\* RabbitMQService.onModuleDestroy, once the module is up:
\* await this.channel?.close(); await this.connection?.close().  Closing a
\* channel that is closed already throws or not (throws; what amqplib does is
\* not in the repository), and a throw ends the method before the connection
\* is closed.  Closing the established connection emits its close event, whose
\* handler is the one connect() registered
OnModuleDestroy(throws) ==
    /\ ~destroyed
    /\ ConnectReturned
    /\ destroyed' = TRUE
    /\ IF channel = "closed" /\ throws
       THEN UNCHANGED <<connection, channel, consumer, connPc, retryCount,
                        reconnectAttempts, lastDelay>>
       ELSE IF connection = "open" THEN CloseEvent
       ELSE /\ connection' = IF connection = "bare" THEN "closed" ELSE connection
            /\ channel' = IF channel = "open" THEN "closed" ELSE channel
            /\ UNCHANGED <<consumer, connPc, retryCount, reconnectAttempts, lastDelay>>
    /\ UNCHANGED <<brokerUp, leaked, orderVars>>

\* a publishMessage that logs the error and returns
PublishResult_Swallowed(sent) == "ok"

\* publishMessage: it returns when the message went out; its catch logs the
\* error of ensureQueue or of sendToQueue and throws it on, and
\* publishOrderCreated / Shipped / Delivered await it with no catch
PublishResult(sent) == IF sent THEN "ok" ELSE "Error"

\* a getRequiredConfig that falls back on the name of the queue
getRequiredConfig_Default(queue, value) == IF Truthy(value) THEN value ELSE queue

\* getRequiredConfig: the value of the key, or NULL when !value makes it throw
getRequiredConfig(queue, value) == IF Truthy(value) THEN value ELSE NULL

\* what the configuration holds for the queue of an event: nothing, an empty
\* text, the name of the queue
QueueConfigs(queue) == {NULL, "", queue}

\* a caller of publishOrderCreated / Shipped / Delivered for the event of
\* queue, its configuration key holding value: getRequiredConfig, then
\* publishMessage with ensureQueue and sendToQueue; an error of either is
\* thrown on
PublishWith(t, queue, value) ==
    /\ Free(t)
    /\ LET name == getRequiredConfig(queue, value)
           call == [IdleTask EXCEPT !.op = "publish", !.config = value]
           ensured == [call EXCEPT !.asserted = channel # "none"]
       IN  IF name = NULL
           THEN /\ Complete(t, [call EXCEPT !.detail = {"Missing required config"}],
                            PublishResult(FALSE))
                /\ UNCHANGED queues
           ELSE IF ChannelUsable
           THEN /\ Len(queues[name]) < MaxQueue
                /\ queues' = SendToQueue(name, [orderId |-> 0])
                /\ Complete(t, [ensured EXCEPT !.published = TRUE], PublishResult(TRUE))
           ELSE /\ Complete(t, Faulted(ensured), PublishResult(FALSE))
                /\ UNCHANGED queues
    /\ UNCHANGED <<store, clock, brokerVars>>

\* a caller of publishOrderCreated / Shipped / Delivered in a service whose
\* configuration names the queue
PublishCall(t, queue) == PublishWith(t, queue, queue)

\* ------------------------------------------------------------------ specifications
InitOrders ==
    /\ store \in {EmptyStore} \cup
          {[EmptyStore EXCEPT ![1] = [NewOrder(dto) EXCEPT !.id = 1, !.isDeleted = TRUE]] :
               dto \in {d \in CreateOrderDtos : d.items = <<>>}}
    /\ tasks = [t \in Tasks |-> IdleTask]
    /\ last = IdleTask
    /\ queues = [q \in QueueNames |-> <<>>]
    /\ clock = 1

\* the service once the module is up: connected at the first attempt, with its
\* consumer registered
InitUp ==
    /\ brokerUp = TRUE /\ connection = "open" /\ channel = "open"
    /\ consumer = "active" /\ connPc = "idle" /\ retryCount = 0
    /\ reconnectAttempts = 0 /\ lastDelay = 0
    /\ destroyed = FALSE /\ leaked = 0

Init == InitOrders /\ InitUp

\* the module starts: RabbitMQService.onModuleInit calls connect()
InitBroker ==
    /\ brokerUp \in BOOLEAN
    /\ connection = "none" /\ channel = "none" /\ consumer = "unregistered"
    /\ connPc = "connecting" /\ retryCount = 0 /\ reconnectAttempts = 0 /\ lastDelay = 0
    /\ destroyed = FALSE /\ leaked = 0

\* the calls of OrdersService and the deliveries to its consumer
OrderCall(t) ==
    \/ \E dto \in CreateOrderDtos :
          \E unavailable \in SUBSET {dto.items[k].productId : k \in 1..Len(dto.items)} :
             CreateCall(t, dto, unavailable)
    \/ \E id \in Ids, in \in UpdateInputs, ok \in BOOLEAN :
          UpdateLoad(t, id, in.status, in.trackingNumber, ok)
    \/ \E id \in Ids, reason \in ReasonInputs, ok \in BOOLEAN : CancelLoad(t, id, reason, ok)
    \/ \E data \in FailedStockMessages, ok \in BOOLEAN : FailedStockLoad(t, data, ok)
    \/ \E closes \in BOOLEAN : ConsumeUndecodable(t, closes)

\* the queries of OrdersService
OrderQuery(t) ==
    \/ \E id \in Ids, ok \in BOOLEAN : FindOneCall(t, id, ok)
    \/ \E queryDto \in QueryOrderDtos, ok \in BOOLEAN : FindAllCall(t, queryDto, ok)
    \/ \E clientId \in ClientIds, ok \in BOOLEAN : HistoryCall(t, clientId, ok)

\* the calls of the gRPC methods of OrdersController
RpcCall(t) ==
    \/ \E meta \in Metadatas, dto \in CreateOrderDtos :
          \E unavailable \in SUBSET {dto.items[k].productId : k \in 1..Len(dto.items)} :
             createOrder(t, meta, dto, unavailable)
    \/ \E meta \in Metadatas, queryDto \in QueryOrderDtos, ok \in BOOLEAN :
          findAllOrders(t, meta, queryDto, ok)
    \/ \E meta \in Metadatas, id \in Ids \cup {0}, ok \in BOOLEAN :
          findOneOrder(t, meta, id, ok)
    \/ \E meta \in Metadatas, id \in Ids \cup {0}, in \in UpdateInputs, ok \in BOOLEAN :
          updateOrderStatus(t, meta, id, in.status, in.trackingNumber, ok)
    \/ \E meta \in Metadatas, id \in Ids \cup {0}, reason \in ReasonInputs :
          \E okAuth \in BOOLEAN, ok \in BOOLEAN : cancelOrder(t, meta, id, reason, okAuth, ok)
    \/ \E meta \in Metadatas, clientId \in {NULL, "c1", "c2"}, ok \in BOOLEAN :
          getClientHistory(t, meta, clientId, ok)

\* the steps of the operations in flight, the sends of the notifier ending as
\* one of sends
OrderAwaitWith(t, sends) ==
    \/ \E ok \in BOOLEAN : CreateSave(t, ok)
    \/ \E sent \in sends : CreatePublish(t, sent)
    \/ UpdatePublish(t)
    \/ \E ok \in BOOLEAN, sent \in sends : UpdateSave(t, ok, sent)
    \/ \E ok \in BOOLEAN, sent \in sends : CancelSave(t, ok, sent)
    \/ \E ok \in BOOLEAN, sent \in sends : FailedStockSave(t, ok, sent)

\* the steps of the operations in flight, with a notifier whose sends go out
OrderAwait(t) == OrderAwaitWith(t, {TRUE})

\* operations running at the same time
Next ==
    \/ \E t \in Tasks : OrderCall(t)
    \/ \E t \in Tasks : OrderAwait(t)
    \/ Return
    \/ Tick
    \/ ConnectionLost

Spec == Init /\ [][Next]_vars

\* one operation at a time
NextSeq ==
    \/ \E t \in Tasks : Alone(t) /\ OrderCall(t)
    \/ \E t \in Tasks : Alone(t) /\ OrderQuery(t)
    \/ \E t \in Tasks : OrderAwaitWith(t, BOOLEAN)
    \/ Return
    \/ Tick
    \/ ConnectionLost

SpecSeq == Init /\ [][NextSeq]_vars

\* one call at a time, through the gRPC methods of the controller, and the
\* deliveries to the consumer
NextRpc ==
    \/ \E t \in Tasks : Alone(t) /\ Free(t) /\ RpcCall(t)
    \/ \E t \in Tasks : Alone(t) /\ Free(t) /\
          \E data \in FailedStockMessages, ok \in BOOLEAN : FailedStockLoad(t, data, ok)
    \/ \E t \in Tasks : OrderAwait(t)
    \/ Return
    \/ Tick
    \/ ConnectionLost

SpecRpc == Init /\ [][NextRpc]_vars

\* the broker client from the start of the module, with callers that publish
PublishQueues == {"order.created", "order.shipped", "order.delivered"}

NextBroker ==
    \/ ConnectAttempt
    \/ BackoffElapsed
    \/ ReconnectElapsed
    \/ ConnectionLost
    \/ BrokerDown
    \/ BrokerBack
    \/ ConsumeMessages
    \/ \E t \in Tasks, queue \in PublishQueues : PublishCall(t, queue)
    \/ Return

\* the service at the start of the module, before connect() has run
InitModule == InitOrders /\ InitBroker

SpecBroker == InitModule /\ [][NextBroker]_vars

\* the broker client over the life of the module: attempts that fail after the
\* connection was made, and the shutdown of the module
NextLifecycle ==
    \/ NextBroker
    \/ ConnectPartial
    \/ \E throws \in BOOLEAN : OnModuleDestroy(throws)

SpecLifecycle == InitModule /\ [][NextLifecycle]_vars

\* the broker client with callers that publish, the queue names set in the
\* configuration or not
NextConfig ==
    \/ NextBroker
    \/ \E t \in Tasks, queue \in PublishQueues :
          \E value \in QueueConfigs(queue) \ {queue} : PublishWith(t, queue, value)

SpecConfig == InitModule /\ [][NextConfig]_vars

\* timers fire and pending promises settle; a caller takes its answer
SpecBrokerLive ==
    /\ SpecBroker
    /\ WF_vars(ConnectAttempt)
    /\ WF_vars(BackoffElapsed)
    /\ WF_vars(ReconnectElapsed)
    /\ WF_vars(Return)

\* ------------------------------------------------------------------ claims
\* the order the operation that just ended worked on, as the store holds it
LastRow == store[last.id]
\* the operation that just ended found its order
LastFound == last.previousStatus # NULL

\* the transition table of the order status
C1_Edges == {<<"pendiente", "en_procesamiento">>, <<"pendiente", "cancelado">>,
             <<"en_procesamiento", "enviado">>, <<"en_procesamiento", "cancelado">>,
             <<"enviado", "entregado">>, <<"enviado", "cancelado">>}

\* C1: updateStatus on an order it finds, with a tracking number when enviado
\* is requested and no failure of store or broker, returns the order and has
\* persisted the requested status when (current, requested) is an edge of the
\* table; for every other pair it throws BadRequest, has written nothing, and
\* the row is as it was loaded.
C1_TransitionTable ==
    (/\ Answering /\ last.op = "updateStatus" /\ LastFound /\ ~last.faulted
     /\ ~(last.status = "enviado" /\ last.trackingNumber \in {NULL, ""}))
    => IF <<last.previousStatus, last.status>> \in C1_Edges
       THEN /\ last.result = "ok"
            /\ last.wrote
            /\ LastRow.status = last.status
       ELSE /\ last.result = "BadRequest"
            /\ ~last.wrote
            /\ LastRow = last.order
            /\ LastRow.status = last.previousStatus

\* C1 witness: a transition out of entregado, reached along the edges, is rejected
C1_Witness ==
    /\ Answering /\ last.op = "updateStatus" /\ last.previousStatus = "entregado"
    /\ last.result = "BadRequest"

\* C2: an event is on a queue only for a state that the store holds or held:
\* order.created for a row that exists, order.shipped for a row with its
\* shipping date, order.delivered for a row with its delivery date.
C2_PublishAfterSave ==
    /\ \A i \in 1..Len(queues["order.created"]) :
          store[queues["order.created"][i].orderId] # NoOrder
    /\ \A i \in 1..Len(queues["order.shipped"]) :
          store[queues["order.shipped"][i].orderId].shippedAt # NoDate
    /\ \A i \in 1..Len(queues["order.delivered"]) :
          store[queues["order.delivered"][i].orderId].deliveredAt # NoDate

\* C3: once the persisted status of an order is entregado or cancelado, no
\* step changes it.
C3_TerminalStays ==
    [][\A id \in Ids :
          store[id].status \in {"entregado", "cancelado"}
          => store'[id].status = store[id].status]_vars

\* C4: no step turns a row whose status is past pendiente into a row cancelled
\* with the reason "Stock insuficiente".
C4_NoStaleStockCancel ==
    [][\A id \in Ids :
          (/\ store[id] # NoOrder /\ store[id].status # "pendiente"
           /\ store'[id] # store[id])
          => ~(/\ store'[id].status = "cancelado"
               /\ store'[id].cancellationReason = "Stock insuficiente")]_vars

\* C5: the failed-stock handler that ran alone on a message with an envelope
\* and an order id, the store working: if it found the order pendiente, the row
\* is cancelado with reason "Stock insuficiente" and a cancellation date; if the
\* order is absent, deleted or in another status, it wrote nothing, discarded
\* the event, and the row is as it was.
C5_FailedStockAlone ==
    (/\ Answering /\ last.op = "handleFailedStock" /\ last.data.message
     /\ MessageOrderId(last.data) # 0 /\ ~last.faulted)
    => IF last.previousStatus = "pendiente"
       THEN /\ last.wrote
            /\ LastRow.status = "cancelado"
            /\ LastRow.cancellationReason = "Stock insuficiente"
            /\ LastRow.cancelledAt # NoDate
       ELSE /\ ~last.wrote
            /\ last.result = "discarded"
            /\ LastFound => LastRow = last.order

\* C5 witness: the handler cancelled a pendiente order
C5_Witness ==
    /\ Answering /\ last.op = "handleFailedStock" /\ last.result = "cancelled"
    /\ last.previousStatus = "pendiente"

\* C6: updateStatus to enviado with an undefined or empty tracking number never
\* returns the order, saves nothing and publishes nothing; on an order it finds
\* it throws BadRequest, and the row, its status, tracking number and
\* shipping date included, is as it was loaded (the status assigned in memory
\* before the check never reaches the store).
C6_TrackingRequired ==
    (/\ Answering /\ last.op = "updateStatus" /\ last.status = "enviado"
     /\ last.trackingNumber \in {NULL, ""})
    => /\ last.result # "ok"
       /\ ~last.wrote
       /\ ~last.published
       /\ LastFound =>
            /\ last.result = "BadRequest"
            /\ LastRow = [last.order EXCEPT !.status = last.previousStatus]

\* C6 witness: the transition is allowed and only the tracking number is missing
C6_Witness ==
    /\ Answering /\ last.op = "updateStatus" /\ last.status = "enviado"
    /\ last.trackingNumber = "" /\ last.previousStatus = "en_procesamiento"
    /\ last.result = "BadRequest"

\* C7: cancel on an order it finds in entregado or cancelado throws BadRequest,
\* writes nothing and leaves the row as it was; on an order in pendiente,
\* en_procesamiento or enviado, the store working, it returns the order, and
\* the row is cancelado with a cancellation date and a non-empty reason.
C7_CancelEligibility ==
    (Answering /\ last.op = "cancel" /\ LastFound)
    => IF last.previousStatus \in {"entregado", "cancelado"}
       THEN /\ last.result = "BadRequest"
            /\ ~last.wrote
            /\ LastRow = last.order
       ELSE ~last.faulted =>
            /\ last.result = "ok"
            /\ LastRow.status = "cancelado"
            /\ LastRow.cancelledAt # NoDate
            /\ LastRow.cancellationReason \notin {NULL, ""}

\* C7 witness: a shipped order was cancelled
C7_Witness ==
    /\ Answering /\ last.op = "cancel" /\ last.previousStatus = "enviado"
    /\ last.result = "ok"

RECURSIVE C9_Sum(_)
C9_Sum(items) == IF items = <<>> THEN 0 ELSE C9_Sum(Tail(items)) + Head(items).subtotal

\* C9: every row of the store has total = sum of the subtotals of its items,
\* and every item has subtotal = unitPrice x quantity.
C9_Totals ==
    \A id \in Ids :
        store[id] # NoOrder =>
            /\ store[id].total = C9_Sum(store[id].items)
            /\ \A i \in 1..Len(store[id].items) :
                  store[id].items[i].subtotal =
                      store[id].items[i].unitPrice * store[id].items[i].quantity

\* C9 witness: an order of three items went through to entregado
C9_Witness ==
    \E id \in Ids : /\ store[id].status = "entregado"
                    /\ Len(store[id].items) = 3
                    /\ store[id].total = 60000

\* C10: while an established connection is closed, the broker is reachable and
\* the connection attempts are not spent, the client comes to hold an open
\* connection and channel, on which a publish goes through, unless the broker
\* goes down again first.
C10_ReconnectRestoresPublish ==
    (connection = "closed" /\ brokerUp /\ connPc # "gaveUp")
    ~> (~brokerUp \/ (connection = "open" /\ ChannelUsable))

\* C10 witness: a publish went through on a connection made after a close
C10_Witness ==
    /\ Answering /\ last.op = "publish" /\ last.result = "ok"
    /\ consumer = "lost" /\ connection = "open" /\ reconnectAttempts = 0

\* C11: once the client holds an open connection and channel again after a
\* close, the order.failed.stock consumer registered at startup is active on
\* it: no state has the connection and channel open and the consumer lost.
C11_ConsumerRestored ==
    (connection = "open" /\ ChannelUsable) => consumer # "lost"

\* C12: a connection sequence makes no more than maxReconnectAttempts (10)
\* attempts: connect(retryCount) is attempt number retryCount + 1 of its
\* sequence, so no attempt is about to run after ten of them have failed.
C12_TenAttempts ==
    connPc = "connecting" => retryCount + 1 <= maxReconnectAttempts

\* C13: when every attempt of the startup connect() has failed, its caller gets
\* an error and not a normal return: the module initialisation that awaits it
\* does not go on to the registration of the consumer as after a success.
C13_FatalSurfaced ==
    (connPc = "gaveUp" /\ connection = "none") => consumer = "unregistered"

\* C14: a message of order.failed.stock is acknowledged only once the handler
\* run for it has completed: no handler that still has its save ahead works on
\* a message that is acknowledged already.
C14_AckAfterHandler ==
    \A t \in Tasks :
        (tasks[t].op = "handleFailedStock" /\ tasks[t].pc = "save") => ~tasks[t].acked

\* C15: every delivered message is acknowledged, whatever goes wrong while it
\* is processed: a payload that cannot be decoded, an envelope without message
\* or order id, a store that fails during the handling.
C15_FailuresAcked ==
    (Answering /\ last.op \in {"consume", "handleFailedStock"}) => last.acked

\* C16: after a create, or an updateStatus to enviado or entregado, whose
\* publish of the event failed, the store holds the new state: the new order,
\* or the order with the requested status.
C16_PublishFailureKeepsState ==
    /\ (/\ Answering /\ last.op = "create" /\ last.wrote
        /\ last.faulted /\ ~last.published)
       => (store[last.id] # NoOrder /\ store[last.id].status = "pendiente")
    /\ (/\ Answering /\ last.op = "updateStatus" /\ LastFound
        /\ last.status \in {"enviado", "entregado"}
        /\ last.faulted /\ ~last.published)
       => LastRow.status = last.status

\* C17: a call of publishOrderCreated, publishOrderShipped or
\* publishOrderDelivered completes normally exactly when the message was sent;
\* when it was not sent (no channel, or a closed one on which the queue
\* assertion and the send fail) the caller gets the error.
C17_PublishFailureReturned ==
    (Answering /\ last.op = "publish")
    => /\ last.result = "ok" <=> last.published
       /\ ~last.published => (last.result = "Error" /\ last.faulted)

\* C17 witness: a publish before any channel exists gave its caller the error
C17_Witness ==
    /\ Answering /\ last.op = "publish" /\ last.result = "Error"
    /\ ~last.published /\ channel = "none"

\* C18: a publish or a consume call made while no open channel exists (the
\* connection never established, or closed and not yet made again) ends at
\* once with an error for its caller.
C18_DownCallsFail ==
    (Answering /\ last.op \in {"publish", "consumeMessages"} /\ last.faulted)
    => last.result = "Error"

\* C19: once a row holds a shippedAt, a deliveredAt or a cancelledAt, no step
\* changes or removes that date.
C19_TimestampsOnce ==
    [][\A id \in Ids :
          /\ store[id].shippedAt # NoDate => store'[id].shippedAt = store[id].shippedAt
          /\ store[id].deliveredAt # NoDate => store'[id].deliveredAt = store[id].deliveredAt
          /\ store[id].cancelledAt # NoDate => store'[id].cancelledAt = store[id].cancelledAt]_vars

\* C20: once a row holds a trackingNumber, no step clears or changes it.
C20_TrackingKept ==
    [][\A id \in Ids :
          store[id].trackingNumber # NULL
          => store'[id].trackingNumber = store[id].trackingNumber]_vars

\* C21: in every state, a row that has a cancellationReason has status
\* cancelado.
C21_ReasonOnlyCancelled ==
    \A id \in Ids :
        (store[id] # NoOrder /\ store[id].cancellationReason # NULL)
        => store[id].status = "cancelado"

\* C21 witness: a row cancelled by its client, with the reason the client gave
C21_Witness ==
    \E id \in Ids : /\ store[id].status = "cancelado"
                    /\ store[id].cancellationReason = "ya no lo quiero"

\* C22: an operation whose notification send failed ends as it does when the
\* send goes out: create, updateStatus and cancel return the order, the handler
\* completes its cancellation, and the row the operation saved is in the store.
C22_NotifierFailureSilent ==
    (Answering /\ last.notified /\ ~last.mailed)
    => /\ last.op \in {"create", "updateStatus", "cancel"} => last.result = "ok"
       /\ last.op = "handleFailedStock" => last.result = "cancelled"
       /\ last.wrote
       /\ LastRow = last.order

\* C22 witness: a cancel whose cancellation mail failed returned the order
C22_Witness ==
    /\ Answering /\ last.op = "cancel" /\ last.notified /\ ~last.mailed
    /\ last.result = "ok" /\ LastRow.status = "cancelado"

\* the order the last operation asked for is absent or soft-deleted
LastMissing == last.id \notin Ids \/ store[last.id] = NoOrder \/ store[last.id].isDeleted

\* C23: on an order that is absent or has isDeleted = true, updateStatus,
\* cancel and findOne fail with not-found and the failed-stock handler discards
\* the event, none of them writing to the store or publishing; and findAll
\* returns no order with isDeleted = true.
C23_DeletedIsAbsent ==
    Answering
    => /\ (last.op \in {"updateStatus", "cancel", "findOne"} /\ LastMissing /\ ~last.faulted)
          => (last.result = "NotFound" /\ ~last.wrote /\ ~last.published)
       /\ (last.op = "handleFailedStock" /\ last.id # 0 /\ LastMissing /\ ~last.faulted)
          => (last.result = "discarded" /\ ~last.wrote /\ ~last.published)
       /\ last.op = "findAll" => \A id \in last.rows : ~store[id].isDeleted

\* C23 witness: updateStatus into en_procesamiento of a pendiente row that has
\* isDeleted = true was answered not-found
C23_Witness ==
    /\ Answering /\ last.op = "updateStatus" /\ last.result = "NotFound"
    /\ last.status = "en_procesamiento"
    /\ last.id \in Ids /\ store[last.id].status = "pendiente" /\ store[last.id].isDeleted

\* C24: UpdateOrderStatus called by a caller whose role is not admin, the
\* caller with no role metadata included, ends with PERMISSION_DENIED without
\* the order having been loaded, with no store write and no publish.
C24_UpdateNeedsAdmin ==
    (Answering /\ last.rpc = "UpdateOrderStatus" /\ last.role # "admin")
    => /\ last.result = "PERMISSION_DENIED"
       /\ last.op = "none" /\ last.previousStatus = NULL /\ last.order = NoOrder
       /\ ~last.wrote /\ ~last.published

\* C24 witness: a caller with role client asked for a legal move of an order
\* that exists, and was refused
C24_Witness ==
    /\ Answering /\ last.rpc = "UpdateOrderStatus" /\ last.role = "client"
    /\ last.result = "PERMISSION_DENIED"
    /\ last.id \in Ids /\ store[last.id].status = "pendiente" /\ ~store[last.id].isDeleted
    /\ last.status = "en_procesamiento"

\* C25: for a caller with role client, CreateOrder for another clientId and
\* FindOneOrder or CancelOrder on another client's order end with
\* PERMISSION_DENIED and write and publish nothing, and every order
\* FindAllOrders or GetClientHistory returns has the caller's user id as its
\* clientId.
C25_ClientOwnOrdersOnly ==
    (Answering /\ last.role = "client")
    => /\ (last.rpc = "CreateOrder" /\ last.clientId # last.userId)
          => (last.result = "PERMISSION_DENIED" /\ ~last.wrote /\ ~last.published)
       /\ (/\ last.rpc \in {"FindOneOrder", "CancelOrder"}
           /\ ~LastMissing /\ ~last.faulted
           /\ store[last.id].clientId # last.userId)
          => (last.result = "PERMISSION_DENIED" /\ ~last.wrote /\ ~last.published)
       /\ last.rpc \in {"FindAllOrders", "GetClientHistory"}
          => \A id \in last.rows : store[id].clientId = last.userId

\* C26: in every state at most one connection to the broker is open, and the
\* channel belongs to it; and once onModuleDestroy has run no connection and
\* no channel is open.
C26_OneConnectionReleased ==
    /\ OpenConnections <= 1
    /\ channel = "open" => connection = "open"
    /\ destroyed => (OpenConnections = 0 /\ channel # "open")

\* the message the last operation put on the order.created queue
LastCreated == queues["order.created"][Len(queues["order.created"])]

\* C27: the order.created message of a create, decoded, holds the id of the
\* persisted order and, for each product of the order's items, the quantity of
\* the product's last item; orderId and products are its only properties.
C27_CreatedRoundTrip ==
    (Answering /\ last.op = "create" /\ last.published)
    => /\ DOMAIN LastCreated = {"orderId", "products"}
       /\ LastCreated.orderId = last.order.id
       /\ LastRow.id = LastCreated.orderId
       /\ LastCreated.products = ProductsMap(LastRow.items)
       /\ DOMAIN LastCreated.products = {LastRow.items[i].productId : i \in 1..Len(LastRow.items)}
       /\ \A i \in 1..Len(LastRow.items) :
             (\A j \in (i+1)..Len(LastRow.items) :
                 LastRow.items[j].productId # LastRow.items[i].productId)
             => LastCreated.products[LastRow.items[i].productId] = LastRow.items[i].quantity

\* C27 witness: the message of an order with three items of two products
C27_Witness ==
    /\ Answering /\ last.op = "create" /\ last.published
    /\ Len(LastRow.items) = 3
    /\ LastCreated.products["p1"] = 3 /\ LastCreated.products["p2"] = 1

\* the queue an updateStatus into status publishes to
EventQueue(status) == IF status = "enviado" THEN "order.shipped" ELSE "order.delivered"

\* the operation that ended last succeeded
LastSucceeded == Answering /\ last.wrote /\ last.result \in {"ok", "cancelled"}

\* what a successful operation has published when it ends
C28_Published ==
    LastSucceeded
    => /\ (last.op = "updateStatus" /\ last.status \in {"enviado", "entregado"})
          => /\ last.published
             /\ Len(queues[EventQueue(last.status)]) > 0
             /\ queues[EventQueue(last.status)][Len(queues[EventQueue(last.status)])].orderId
                = last.id
       /\ (last.op = "updateStatus" /\ last.status \in {"cancelado", "en_procesamiento"})
          => ~last.published
       /\ last.op \in {"cancel", "handleFailedStock"} => ~last.published

\* a step that changes the queues appends one message to one queue, for an
\* operation that stands at its publish and has published nothing yet
C28_OneMessage ==
    \A q \in QueueNames :
        queues'[q] # queues[q]
        => /\ Len(queues'[q]) = Len(queues[q]) + 1
           /\ SubSeq(queues'[q], 1, Len(queues[q])) = queues[q]
           /\ \A r \in QueueNames \ {q} : queues'[r] = queues[r]
           /\ \E t \in Tasks :
                 /\ tasks[t].pc = "publish" /\ ~tasks[t].published
                 /\ tasks'[t].pc # "publish"
                 /\ \/ tasks[t].op = "create" /\ q = "order.created"
                    \/ /\ tasks[t].op = "updateStatus"
                       /\ tasks[t].status \in {"enviado", "entregado"}
                       /\ q = EventQueue(tasks[t].status)

\* C28: a successful updateStatus into enviado has published one orderShipped
\* message and one into entregado one orderDelivered message, each in the one
\* step that publishes for it; a successful updateStatus into cancelado or
\* en_procesamiento, a cancel and a failed-stock cancellation have published
\* nothing.
C28_EventPerStatus == [](C28_Published) /\ [][C28_OneMessage]_vars

\* C28 witness: an order shipped with its orderShipped message
C28_Witness ==
    /\ LastSucceeded /\ last.op = "updateStatus" /\ last.status = "enviado"
    /\ last.published /\ Len(queues["order.shipped"]) = 1
    /\ queues["order.shipped"][1].trackingNumber = "TRK-1"

\* the schedule of waits: 1000 ms doubled per retry, 30000 ms at most
BackoffSchedule == <<1000, 2000, 4000, 8000, 16000, 30000, 30000, 30000, 30000, 30000>>

\* C29: while connect() waits before retry number n (n = retryCount counted
\* from 0), the wait is min(1000 x 2^n, 30000) ms: 1000, 2000, 4000, 8000,
\* 16000, then 30000; and no wait is longer than 30000 ms.
C29_BackoffSchedule ==
    /\ connPc = "backoff"
       => /\ retryCount + 1 \in DOMAIN BackoffSchedule
          /\ lastDelay = BackoffSchedule[retryCount + 1]
    /\ lastDelay <= 30000

\* C29 witness: the first wait at the cap, before retry number 5
C29_Witness == connPc = "backoff" /\ retryCount = 5 /\ lastDelay = 30000

\* C30: the wait before the first reconnection attempt after a connection
\* that was established closed is 1000 ms, the wait of attempt 0 of connect().
C30_FirstReconnectWait ==
    (connPc = "reconnectWait" /\ reconnectAttempts = 1) => lastDelay = BackoffDelay(0)

\* the message names no order: no envelope, or neither orderId nor OrderId
NoOrderNamed(data) == ~data.message \/ (data.orderId = 0 /\ data.OrderId = 0)

\* C31: the step in which the failed-stock handler takes a message with no
\* envelope, or with neither orderId nor OrderId in it, loads no order, saves
\* none, calls no notifier, and leaves every row of the store as it was.
C31_SchemaMismatchFrame ==
    [][(/\ ~Answering
        /\ last'.pc = "done" /\ last'.op = "handleFailedStock"
        /\ NoOrderNamed(last'.data))
       => /\ store' = store
          /\ last'.result = "schema"
          /\ last'.id = 0 /\ last'.previousStatus = NULL /\ last'.order = NoOrder
          /\ ~last'.wrote /\ ~last'.notified /\ ~last'.published]_vars

\* C31 witness: a message with an envelope and no order id in it was taken
\* while the store held a pendiente order
C31_Witness ==
    /\ Answering /\ last.op = "handleFailedStock" /\ last.result = "schema"
    /\ last.data.message /\ last.data.orderId = 0 /\ last.data.OrderId = 0
    /\ \E id \in Ids : store[id].status = "pendiente" /\ ~store[id].isDeleted

\* what create fixes of an order: its id, its client, its total and its items
CreatedPart(order) ==
    [id |-> order.id, clientId |-> order.clientId, clientName |-> order.clientName,
     clientEmail |-> order.clientEmail, shippingAddress |-> order.shippingAddress,
     total |-> order.total, items |-> order.items]

\* C32: no step changes the id, clientId, clientName, clientEmail,
\* shippingAddress, total or items of a row that is in the store; the steps
\* that write to an existing row are the saves of updateStatus, cancel and
\* the failed-stock handler.
C32_CreatedPartKept ==
    [][\A id \in Ids :
          store[id] # NoOrder => CreatedPart(store'[id]) = CreatedPart(store[id])]_vars

\* C32 witness: an order of three items, delivered, with the items and the
\* total create computed
C32_Witness ==
    \E id \in Ids :
        /\ store[id].status = "entregado"
        /\ Len(store[id].items) = 3
        /\ store[id].total = 60000
        /\ store[id].items[3] = [productId |-> "p1", productName |-> "Producto de Ejemplo",
                                 unitPrice |-> 10000, quantity |-> 3, subtotal |-> 30000]

\* C33: the row a successful cancel saved holds the reason the caller gave when
\* it is not empty, and "Cancelado por el usuario" when the caller gave none
\* or an empty one.
C33_ReasonRecorded ==
    (Answering /\ last.op = "cancel" /\ last.result = "ok")
    => /\ last.reason \notin {NULL, ""} => LastRow.cancellationReason = last.reason
       /\ last.reason \in {NULL, ""} => LastRow.cancellationReason = "Cancelado por el usuario"

\* C33 witness: a cancel called with an empty reason recorded the default
C33_Witness ==
    /\ Answering /\ last.op = "cancel" /\ last.result = "ok" /\ last.reason = ""
    /\ LastRow.cancellationReason = "Cancelado por el usuario"

\* C34: a publish method called while the configuration holds no name for the
\* queue of its event fails with the missing-configuration error, without
\* asserting a queue and without sending a message: the queues stay as they
\* were.
C34_UnsetQueueFailsFast ==
    [][(/\ ~Answering
        /\ last'.pc = "done" /\ last'.op = "publish"
        /\ last'.config \in {NULL, ""})
       => /\ last'.result = "Error"
          /\ last'.detail = {"Missing required config"}
          /\ ~last'.asserted /\ ~last'.published
          /\ queues' = queues]_vars

\* C34 witness: the call failed on the configuration while the channel was open
C34_Witness ==
    /\ Answering /\ last.op = "publish" /\ last.config = NULL
    /\ last.result = "Error" /\ ChannelUsable

\* a row that comes into the store is as create builds it
C35_BornPendiente ==
    \A id \in Ids :
        (store[id] = NoOrder /\ store'[id] # NoOrder)
        => /\ store'[id].status = "pendiente"
           /\ store'[id].trackingNumber = NULL /\ store'[id].cancellationReason = NULL
           /\ store'[id].shippedAt = NoDate /\ store'[id].deliveredAt = NoDate
           /\ store'[id].cancelledAt = NoDate

\* what a create that returned the order has done
C35_SaveThenPublishThenNotify ==
    (Answering /\ last.op = "create" /\ last.result = "ok")
    => /\ last.steps = <<"save", "publish", "notify">>
       /\ last.wrote /\ last.notified
       /\ last.published \/ last.faulted

\* C35: a row create puts in the store has status pendiente and no
\* trackingNumber, cancellationReason, shippedAt, deliveredAt or cancelledAt;
\* and a create that succeeded has saved, then attempted the orderCreated
\* publish once, then attempted the confirmation mail once.
C35_CreateLifecycle == [](C35_SaveThenPublishThenNotify) /\ [][C35_BornPendiente]_vars

\* C35 witness: a create whose publish attempt failed and whose mail went out
\* returned the order
C35_Witness ==
    /\ Answering /\ last.op = "create" /\ last.result = "ok"
    /\ last.faulted /\ ~last.published /\ last.mailed
    /\ LastRow.status = "pendiente"

\* C36: in every state, a row with status cancelado has a cancellationReason
\* that is not empty and a cancelledAt.
C36_CancelledHasReasonAndDate ==
    \A id \in Ids :
        (store[id] # NoOrder /\ store[id].status = "cancelado")
        => /\ store[id].cancellationReason \notin {NULL, ""}
           /\ store[id].cancelledAt # NoDate

\* create, updateStatus and cancel return the order exactly when their save
\* went through
C37_SavedIffSuccess ==
    (Answering /\ last.op \in {"create", "updateStatus", "cancel"})
    => (last.wrote <=> last.result = "ok")

\* a step that changes the store is the save of an operation, which from then
\* on counts as having written
C37_OnlySavesWrite ==
    store' # store
    => \E t \in Tasks :
          /\ tasks[t].pc = "save"
          /\ ~tasks[t].wrote
          /\ \/ tasks'[t].op = tasks[t].op /\ tasks'[t].wrote
             \/ last'.pc = "done" /\ last'.op = tasks[t].op /\ last'.wrote

\* C37: with one operation at a time, a create, updateStatus or cancel that
\* returns an error has changed no row of the store, and one whose save went
\* through returns the order.
C37_ErrorMeansUntouched == [](C37_SavedIffSuccess) /\ [][C37_OnlySavesWrite]_vars

\* C37 witness: an updateStatus that published its event and failed at its
\* save returned an error, the row being as it was
C37_Witness ==
    /\ Answering /\ last.op = "updateStatus" /\ last.result = "InternalServerError"
    /\ last.published /\ ~last.wrote
    /\ LastRow.status = last.previousStatus /\ LastRow.shippedAt = NoDate

\* C38: once onModuleDestroy has run, no step starts a reconnection wait or a
\* connection attempt, and no step opens a connection; the step of
\* onModuleDestroy itself is such a step.
C38_NoReconnectAfterDestroy ==
    [][destroyed'
       => /\ connPc' = "reconnectWait" => connPc = "reconnectWait"
          /\ connPc' = "connecting" => connPc = "connecting"
          /\ connection' \in {"open", "bare"} => connection' = connection]_vars

\* two deliveries of the failed-stock event of one order are both past the
\* pendiente check, each about to save the cancellation and mail the client
BothCancelling(t, u) ==
    /\ tasks[t].op = "handleFailedStock" /\ tasks[t].pc = "save"
    /\ tasks[u].op = "handleFailedStock" /\ tasks[u].pc = "save"
    /\ tasks[t].id = tasks[u].id

\* C39: of the deliveries of the failed-stock event of an order, one after the
\* other, at most one goes on to save the cancellation and to mail the client;
\* the others find the order cancelled and leave it as it is.
C39_RedeliveryIdempotent ==
    \A t, u \in Tasks : t # u => ~BothCancelling(t, u)

\* the messages on the queue that name the order id
EventsFor(queue, id) ==
    {i \in 1..Len(queues[queue]) : queues[queue][i].orderId = id}

\* C40: for every order there is at most one message on order.shipped and at
\* most one on order.delivered, whatever way the updateStatus calls interleave.
C40_OneEventPerOrder ==
    \A id \in Ids : \A queue \in {"order.shipped", "order.delivered"} :
        Cardinality(EventsFor(queue, id)) <= 1

====
